---- MODULE Spec2Model ----
(***************************************************************************)
(* State-machine model of main.py: one metadata request, a fan-out of      *)
(* download_image coroutines joined by asyncio.gather, then a fan-out of   *)
(* detect_stars_and_process jobs over a ProcessPoolExecutor joined by a    *)
(* second asyncio.gather, then the printed summary.                        *)
(***************************************************************************)
EXTENDS Integers, Sequences, FiniteSets, TLC

\* ---------------------------------------------------------------- bounds
MaxItems == 3        \* longest JSON array the catalog API answers with
PoolSize == 2        \* worker processes of the pool (os.cpu_count())
MaxStars == 0        \* largest number of keypoints the detector reports

\* ------------------------------------------------------- values and data
\* Python's None: falsy, as the empty tuple is here
None == <<>>

\* truthiness of a download result, as `if f` evaluates it
Truthy(f) == Len(f) > 0

\* a catalog item is a dict; "hdurl" may be missing (None from item.get)
Items ==
    { [media_type |-> "image", hdurl |-> <<"hd">>, url |-> <<"u">>],
      [media_type |-> "image", hdurl |-> None,     url |-> <<"u">>],
      [media_type |-> "video", hdurl |-> None,     url |-> <<"v">>] }

SeqsUpTo(S, n) == UNION { [1..k -> S] : k \in 0..n }

\* what response.json() can produce: a JSON array of items, or a JSON
\* object (iterating a dict yields its keys, which are strings: [key |-> s])
JsonBodies ==
    { [json |-> "array", elems |-> s] : s \in SeqsUpTo(Items, MaxItems) }
    \cup { [json |-> "object", elems |-> <<>>],
           [json |-> "object", elems |-> << [key |-> "error"] >>] }

\* the metadata exchange: the request fails, or a response arrives whose
\* body either parses or does not
MetaResponses ==
    { [net |-> "error", status |-> 0, body |-> [json |-> "none", elems |-> <<>>]] }
    \cup { [net |-> "ok", status |-> st, body |-> b] :
             st \in {200, 500},
             b \in JsonBodies \cup { [json |-> "malformed", elems |-> <<>>] } }

SpaceNameFixed(i) == <<"space_", 0, ".jpg">>

\* f"space_{i}.jpg"
SpaceName(i) == <<"space_", i, ".jpg">>

\* f"detected_{filename}"
DetectedName(filename) == <<"detected_">> \o filename

ErrorSummaryNoName(filename) == <<"Error loading ">>

\* f"Error loading {filename}"
ErrorSummary(filename) == <<"Error loading ">> \o filename

\* f"Found {len(keypoints)} stars in {filename}"
FoundSummary(n, filename) == <<"Found ", n, " stars in ">> \o filename

ChooseUrlPlain(item) == item.url

\* item.get("hdurl") or item.get("url")
ChooseUrl(item) == IF Truthy(item.hdurl) THEN item.hdurl ELSE item.url

\* element of the iteration is a dict (an item) and not a str (a dict key)
IsDict(e) == "media_type" \in DOMAIN e

\* [item for item in data if item.get("media_type") == "image"]
IsImage(item) == item.media_type = "image"

ValidItemsKeepsAll(elems) == elems

ValidItems(elems) == SelectSeq(elems, IsImage)

\* the comprehension calls item.get on every element: a str element (a key
\* of a JSON object) has no .get and raises AttributeError
IterationRaises(elems) == \E k \in 1..Len(elems) : ~IsDict(elems[k])

\* ----------------------------------------------------------------- state
VARIABLES
    pc,                 \* position of main(): fetch, filter, download,
                        \* dispatch, ana_gather, shutdown, report, done, aborted
    abortCause,         \* which exception left main(): none, fetch, analysis
    metaStatus,         \* response.status of the metadata response (0: none)
    data,               \* what response.json() returned
    valid_items,        \* the filtered items
    tasks,              \* the download_image coroutines handed to gather
    requests,           \* urls of the image GET requests issued, in order
    disk,               \* files in SAVE_DIR: name -> "partial" | "full"
    download_pbar,      \* download_pbar.n
    download_files,     \* result of the first asyncio.gather
    downloaded_files,   \* download_files without the failed downloads
    results,            \* the futures of the jobs given to the pool
    pbar,               \* pbar.n of the analysis progress bar
    gatherOuter,        \* the future of the second gather: none, pending,
                        \* exc, result
    analysis_summaries, \* result of the second asyncio.gather
    processed,          \* names of the files written to PROCESSED_DIR
    printed             \* summaries printed by the final loop

vars == << pc, abortCause, metaStatus, data, valid_items, tasks, requests,
           disk, download_pbar, download_files, downloaded_files, results,
           pbar, gatherOuter, analysis_summaries, processed, printed >>

fetchVars == << metaStatus, data, valid_items >>
dlVars == << tasks, requests, disk, download_pbar, download_files,
             downloaded_files >>
anaVars == << results, pbar, gatherOuter, analysis_summaries, processed,
              printed >>

NoBody == [json |-> "none", elems |-> <<>>]

Init ==
    /\ pc = "fetch"
    /\ abortCause = "none"
    /\ metaStatus = 0
    /\ data = NoBody
    /\ valid_items = <<>>
    /\ tasks = <<>>
    /\ requests = <<>>
    /\ disk = <<>>
    /\ download_pbar = 0
    /\ download_files = <<>>
    /\ downloaded_files = <<>>
    /\ results = <<>>
    /\ pbar = 0
    /\ gatherOuter = "none"
    /\ analysis_summaries = <<>>
    /\ processed = {}
    /\ printed = <<>>

\* ------------------------------------------------------ 1. fetch metadata
\* session.get(BASE_URL) and response.json(): the status is never looked at
MetaFetch ==
    /\ pc = "fetch"
    /\ \E r \in MetaResponses :
        /\ metaStatus' = r.status
        /\ IF r.net = "error" \/ r.body.json = "malformed"
           THEN /\ pc' = "aborted"
                /\ abortCause' = "fetch"
                /\ data' = data
           ELSE /\ pc' = "filter"
                /\ abortCause' = abortCause
                /\ data' = r.body
    /\ UNCHANGED << valid_items, dlVars, anaVars >>

\* the coroutine object download_image(session, url, f"space_{i}.jpg", pbar)
\* for the item at zero-based position i of valid_items
NewTask(i, item) ==
    [ url |-> ChooseUrl(item), filename |-> SpaceName(i), st |-> "created",
      status |-> 0, exc |-> FALSE, result |-> None, upd |-> 0 ]

\* the filter, the progress bar, the task list and the call of gather
StartDownloads ==
    /\ pc = "filter"
    /\ IF IterationRaises(data.elems)
       THEN /\ pc' = "aborted"
            /\ abortCause' = "fetch"
            /\ UNCHANGED << valid_items, tasks >>
       ELSE /\ pc' = "download"
            /\ abortCause' = abortCause
            /\ valid_items' = ValidItems(data.elems)
            /\ tasks' = [ k \in 1..Len(ValidItems(data.elems)) |->
                            NewTask(k - 1, ValidItems(data.elems)[k]) ]
    /\ download_pbar' = 0
    /\ UNCHANGED << metaStatus, data, requests, disk, download_files,
                    downloaded_files, anaVars >>

\* ------------------------------------------------------ 2. download_image
\* what the task returns and adds to the bar on each way out
OkResult(filename) == filename
OkIncrement == 1
ExceptReturnsName(filename) == filename
ExceptResult(filename) == None
ExceptIncrement == 1
Non200ReturnsName(filename) == filename
Non200Result(filename) == None
Non200Increment == 0

\* the except block: print, pbar.update(1), return None
ExceptExit(t) ==
    [ t EXCEPT !.st = "done", !.exc = TRUE,
               !.result = ExceptResult(t.filename),
               !.upd = @ + ExceptIncrement ]

\* the task starts running: session.get(url) is issued; the event loop
\* starts the tasks in the order gather scheduled them
DlStart(i) ==
    /\ pc = "download"
    /\ tasks[i].st = "created"
    /\ \A k \in 1..(i - 1) : tasks[k].st # "created"
    /\ tasks' = [tasks EXCEPT ![i].st = "get"]
    /\ requests' = Append(requests, tasks[i].url)
    /\ UNCHANGED << pc, abortCause, fetchVars, disk, download_pbar,
                    download_files, downloaded_files, anaVars >>

\* the request resolves: an exception, status 200, or another status
DlRespond(i) ==
    /\ pc = "download"
    /\ tasks[i].st = "get"
    /\ \E o \in {"exc", "200", "404"} :
        CASE o = "exc" ->
               /\ tasks' = [tasks EXCEPT ![i] = ExceptExit(@)]
               /\ download_pbar' = download_pbar + ExceptIncrement
          [] o = "200" ->
               /\ tasks' = [tasks EXCEPT ![i].st = "read", ![i].status = 200]
               /\ download_pbar' = download_pbar
          [] o = "404" ->
               /\ tasks' = [tasks EXCEPT ![i].st = "done", ![i].status = 404,
                              ![i].result = Non200Result(tasks[i].filename),
                              ![i].upd = @ + Non200Increment]
               /\ download_pbar' = download_pbar + Non200Increment
    /\ UNCHANGED << pc, abortCause, fetchVars, requests, disk, download_files,
                    downloaded_files, anaVars >>

\* content = await response.read()
DlRead(i) ==
    /\ pc = "download"
    /\ tasks[i].st = "read"
    /\ \E o \in {"ok", "exc"} :
        IF o = "ok"
        THEN /\ tasks' = [tasks EXCEPT ![i].st = "write"]
             /\ download_pbar' = download_pbar
        ELSE /\ tasks' = [tasks EXCEPT ![i] = ExceptExit(@)]
             /\ download_pbar' = download_pbar + ExceptIncrement
    /\ UNCHANGED << pc, abortCause, fetchVars, requests, disk, download_files,
                    downloaded_files, anaVars >>

\* aiofiles.open(.., "wb") creates or truncates the file, f.write fills it;
\* then pbar.update(1) and return filename
DlWrite(i) ==
    /\ pc = "download"
    /\ tasks[i].st = "write"
    /\ \E o \in {"ok", "exc_open", "exc_write"} :
        CASE o = "ok" ->
               /\ disk' = (tasks[i].filename :> "full") @@ disk
               /\ tasks' = [tasks EXCEPT ![i].st = "done",
                              ![i].result = OkResult(tasks[i].filename),
                              ![i].upd = @ + OkIncrement]
               /\ download_pbar' = download_pbar + OkIncrement
          [] o = "exc_open" ->
               /\ disk' = disk
               /\ tasks' = [tasks EXCEPT ![i] = ExceptExit(@)]
               /\ download_pbar' = download_pbar + ExceptIncrement
          [] o = "exc_write" ->
               /\ disk' = (tasks[i].filename :> "partial") @@ disk
               /\ tasks' = [tasks EXCEPT ![i] = ExceptExit(@)]
               /\ download_pbar' = download_pbar + ExceptIncrement
    /\ UNCHANGED << pc, abortCause, fetchVars, requests, download_files,
                    downloaded_files, anaVars >>

GatherAnyDone(ts) == \E i \in DOMAIN ts : ts[i].st = "done"

\* asyncio.gather(*tasks) is done when every task is done
GatherReady(ts) == \A i \in DOMAIN ts : ts[i].st = "done"

GatherReversed(ts) == [ i \in DOMAIN ts |-> ts[Len(ts) + 1 - i].result ]

\* ... and its result lists the tasks' results in the order of the arguments
GatherResults(ts) == [ i \in DOMAIN ts |-> ts[i].result ]

FilterKeepsAll(files) == files

\* [f for f in download_files if f]
FilterDownloaded(files) == SelectSeq(files, Truthy)

\* main() resumes from the first gather: close the bar, filter the results
DownloadsReturn ==
    /\ pc = "download"
    /\ GatherReady(tasks)
    /\ download_files' = GatherResults(tasks)
    /\ downloaded_files' = FilterDownloaded(GatherResults(tasks))
    /\ pc' = "dispatch"
    /\ UNCHANGED << abortCause, fetchVars, tasks, requests, disk,
                    download_pbar, anaVars >>

\* ------------------------------------------------------ 3. analysis stage
\* loop.run_in_executor(pool, detect_stars_and_process, fname)
NewJob(fname) == [ fname |-> fname, st |-> "queued", kind |-> "none",
                   out |-> None, exc |-> FALSE, upd |-> 0 ]

\* one iteration of `for fname in downloaded_files`
Dispatch ==
    /\ pc = "dispatch"
    /\ Len(results) < Len(downloaded_files)
    /\ results' = Append(results, NewJob(downloaded_files[Len(results) + 1]))
    /\ UNCHANGED << pc, abortCause, fetchVars, dlVars, pbar, gatherOuter,
                    analysis_summaries, processed, printed >>

OuterAlwaysPending(n) == "pending"

\* the future gather makes for n awaitables: with none it is done at once
OuterAtStart(n) == IF n = 0 THEN "result" ELSE "pending"

\* asyncio.gather(*results), and main() suspends on it
AwaitAnalysis ==
    /\ pc = "dispatch"
    /\ Len(results) = Len(downloaded_files)
    /\ pc' = "ana_gather"
    /\ gatherOuter' = OuterAtStart(Len(results))
    /\ UNCHANGED << abortCause, fetchVars, dlVars, results, pbar,
                    analysis_summaries, processed, printed >>

Running == { j \in DOMAIN results : results[j].st = "running" }

\* a free worker process takes the oldest job from the queue
JobStart(j) ==
    /\ pc \in {"dispatch", "ana_gather", "shutdown"}
    /\ results[j].st = "queued"
    /\ \A k \in 1..(j - 1) : results[k].st # "queued"
    /\ Cardinality(Running) < PoolSize
    /\ results' = [results EXCEPT ![j].st = "running"]
    /\ UNCHANGED << pc, abortCause, fetchVars, dlVars, pbar, gatherOuter,
                    analysis_summaries, processed, printed >>

\* what detect_stars_and_process can do with a file: cv2.imread gives None
\* (always, when the file is missing), an OpenCV call raises, or the
\* detector finds n keypoints
JobOutcomes(fname) ==
    IF fname \in DOMAIN disk
    THEN { [kind |-> "noload", n |-> 0], [kind |-> "raise", n |-> 0] }
         \cup { [kind |-> "found", n |-> n] : n \in 0..MaxStars }
    ELSE { [kind |-> "noload", n |-> 0] }

\* detect_stars_and_process(filename) in a worker process
JobFinish(j) ==
    /\ pc \in {"dispatch", "ana_gather", "shutdown"}
    /\ results[j].st = "running"
    /\ \E o \in JobOutcomes(results[j].fname) :
        CASE o.kind = "noload" ->
               /\ results' = [results EXCEPT ![j].st = "finished",
                                ![j].kind = "noload",
                                ![j].out = ErrorSummary(results[j].fname)]
               /\ processed' = processed
          [] o.kind = "raise" ->
               /\ results' = [results EXCEPT ![j].st = "finished",
                                ![j].kind = "raise",
                                ![j].exc = TRUE]
               /\ processed' = processed
          [] o.kind = "found" ->
               /\ results' = [results EXCEPT ![j].st = "finished",
                                ![j].kind = "found",
                                ![j].out = FoundSummary(o.n, results[j].fname)]
               /\ processed' = processed \cup {DetectedName(results[j].fname)}
    /\ UNCHANGED << pc, abortCause, fetchVars, dlVars, pbar, gatherOuter,
                    analysis_summaries, printed >>

DoneIncrementTwice == 1 + 1

\* the bar's share of a future's done callbacks: lambda _: pbar.update(1)
DoneIncrement == 1

OuterAfterFirst(outer, job, others) ==
    IF outer # "pending" THEN outer
    ELSE IF job.exc THEN "exc"
    ELSE "result"

\* gather's share: the first exception ends the outer future, and so does
\* the last result
OuterAfter(outer, job, others) ==
    IF outer # "pending" THEN outer
    ELSE IF job.exc THEN "exc"
    ELSE IF \A k \in DOMAIN others : others[k].st = "delivered" THEN "result"
    ELSE "pending"

\* the event loop sets the asyncio future of job j and runs its callbacks;
\* it only runs while main() is suspended in the gather, or, after main()
\* was left by an exception, while asyncio.run winds the loop down
JobDeliver(j) ==
    /\ \/ pc = "ana_gather"
       \/ pc = "aborted" /\ abortCause = "analysis"
    /\ results[j].st = "finished"
    /\ results' = [results EXCEPT ![j].st = "delivered",
                                  ![j].upd = @ + DoneIncrement]
    /\ pbar' = pbar + DoneIncrement
    /\ gatherOuter' = OuterAfter(gatherOuter, results[j],
                                 [results EXCEPT ![j].st = "delivered"])
    /\ UNCHANGED << pc, abortCause, fetchVars, dlVars, analysis_summaries,
                    processed, printed >>

SummariesReversed(rs) == [ j \in DOMAIN rs |-> rs[Len(rs) + 1 - j].out ]

\* the list the second gather returns: the jobs' results in argument order
GatherSummaries(rs) == [ j \in DOMAIN rs |-> rs[j].out ]

\* main() resumes from the second gather with the list of summaries
AnalysisReturn ==
    /\ pc = "ana_gather"
    /\ gatherOuter = "result"
    /\ analysis_summaries' = GatherSummaries(results)
    /\ pc' = "report"
    /\ UNCHANGED << abortCause, fetchVars, dlVars, results, pbar, gatherOuter,
                    processed, printed >>

\* main() resumes from the second gather with a job's exception, which
\* leaves the `with ProcessPoolExecutor()` block: shutdown(wait=True)
AnalysisRaise ==
    /\ pc = "ana_gather"
    /\ gatherOuter = "exc"
    /\ pc' = "shutdown"
    /\ UNCHANGED << abortCause, fetchVars, dlVars, anaVars >>

\* shutdown(wait=True) returns once the workers have run every job; the
\* exception then leaves main()
PoolShutdown ==
    /\ pc = "shutdown"
    /\ \A j \in DOMAIN results : results[j].st \in {"finished", "delivered"}
    /\ pc' = "aborted"
    /\ abortCause' = "analysis"
    /\ UNCHANGED << fetchVars, dlVars, anaVars >>

\* for summary in analysis_summaries: print(..)
Report ==
    /\ pc = "report"
    /\ printed' = analysis_summaries
    /\ pc' = "done"
    /\ UNCHANGED << abortCause, fetchVars, dlVars, results, pbar, gatherOuter,
                    analysis_summaries, processed >>

Next ==
    \/ MetaFetch
    \/ StartDownloads
    \/ \E i \in DOMAIN tasks : DlStart(i)
    \/ \E i \in DOMAIN tasks : DlRespond(i)
    \/ \E i \in DOMAIN tasks : DlRead(i)
    \/ \E i \in DOMAIN tasks : DlWrite(i)
    \/ DownloadsReturn
    \/ Dispatch
    \/ AwaitAnalysis
    \/ \E j \in DOMAIN results : JobStart(j)
    \/ \E j \in DOMAIN results : JobFinish(j)
    \/ \E j \in DOMAIN results : JobDeliver(j)
    \/ AnalysisReturn
    \/ AnalysisRaise
    \/ PoolShutdown
    \/ Report

Spec == Init /\ [][Next]_vars

\* the run under the assumption that every request resolves and that the
\* event loop and the workers keep taking the steps they can take
LiveSpec == Init /\ [][Next]_vars /\ WF_vars(Next)

\* the fetch and the Download Stage alone, up to the return of the first
\* gather, under the same assumption
DownloadNext ==
    \/ MetaFetch
    \/ StartDownloads
    \/ \E i \in DOMAIN tasks : DlStart(i)
    \/ \E i \in DOMAIN tasks : DlRespond(i)
    \/ \E i \in DOMAIN tasks : DlRead(i)
    \/ \E i \in DOMAIN tasks : DlWrite(i)
    \/ DownloadsReturn

DownloadLiveSpec == Init /\ [][DownloadNext]_vars /\ WF_vars(DownloadNext)

\* ------------------------------------------------------------ properties
\* the first gather has returned its list to main()
DownloadReturned ==
    \/ pc \in {"dispatch", "ana_gather", "shutdown", "report", "done"}
    \/ pc = "aborted" /\ abortCause = "analysis"

\* the analysis stage is over: its gather returned a list, or raised
AnalysisFinished ==
    \/ pc \in {"report", "done"}
    \/ pc = "aborted" /\ abortCause = "analysis"

\* the metadata fetch failed: no response, a status outside 2xx, or a body
\* that did not yield a list of items
MetaFailed ==
    /\ pc # "fetch"
    /\ \/ metaStatus \notin 200..299
       \/ abortCause = "fetch"

Succeeded(t) == t.st = "done" /\ t.status = 200 /\ ~t.exc

\* names of the tasks that succeeded, in task order
RECURSIVE OkNames(_)
OkNames(ts) ==
    IF ts = <<>> THEN <<>>
    ELSE IF Succeeded(ts[Len(ts)])
         THEN Append(OkNames(SubSeq(ts, 1, Len(ts) - 1)), ts[Len(ts)].filename)
         ELSE OkNames(SubSeq(ts, 1, Len(ts) - 1))

\* C1: once the Download Stage has returned, every task has updated the
\* bar exactly once and the bar stands at N, whatever the outcomes were.
C1_DownloadCounterIsN ==
    DownloadReturned =>
        /\ \A i \in DOMAIN tasks : tasks[i].upd = 1
        /\ download_pbar = Len(valid_items)

\* C2: once the Analysis Stage is over, by a returned list or by a job's
\* exception, the analysis bar stands at M, the number of dispatched jobs.
C2_AnalysisCounterIsM ==
    AnalysisFinished => pbar = Len(results)

\* C3: main() is only ever left by an exception of the metadata fetch.
C3_OnlyFetchAborts ==
    pc = "aborted" => abortCause = "fetch"

\* C4: after a failed metadata fetch (no response, non-2xx status or
\* malformed body) no download task exists and no image request is issued.
C4_FailedFetchIssuesNothing ==
    MetaFailed => Len(tasks) = 0 /\ Len(requests) = 0

\* C5: a task that met an exception is done with the failure marker; once
\* the stage has returned, every task is done, the list has N entries, and
\* every task that got 200 and wrote its file holds its own filename.
C5_DownloadFailuresIsolated ==
    /\ \A i \in DOMAIN tasks :
          tasks[i].exc => tasks[i].st = "done" /\ tasks[i].result = None
    /\ DownloadReturned =>
          /\ Len(download_files) = Len(valid_items)
          /\ \A i \in DOMAIN tasks :
                /\ tasks[i].st = "done"
                /\ tasks[i].exc => download_files[i] = None
                /\ (tasks[i].status = 200 /\ ~tasks[i].exc) =>
                      download_files[i] = tasks[i].filename

C5_Witness ==
    /\ DownloadReturned
    /\ \E i, k \in DOMAIN tasks :
          /\ i < k
          /\ tasks[i].exc /\ tasks[i].filename \in DOMAIN disk
          /\ download_files[i] = None
          /\ download_files[k] = SpaceName(k - 1)

\* C6: a task whose request got a status other than 200 is done with the
\* failure marker, has written nothing under its filename, and its
\* filename is neither in the analysis input nor given to any job.
C6_Non200IsFailure ==
    \A i \in DOMAIN tasks :
        (tasks[i].status # 0 /\ tasks[i].status # 200) =>
            /\ tasks[i].st = "done"
            /\ tasks[i].result = None
            /\ SpaceName(i - 1) \notin DOMAIN disk
            /\ \A k \in DOMAIN downloaded_files :
                  downloaded_files[k] # SpaceName(i - 1)
            /\ \A j \in DOMAIN results : results[j].fname # SpaceName(i - 1)

C6_Witness ==
    /\ pc = "ana_gather"
    /\ Len(results) >= 1
    /\ \E i \in DOMAIN tasks : tasks[i].status = 404

\* C7: the list the Download Stage returns has one entry per item, and the
\* entry at position i is space_<i>.jpg when task i succeeded and the
\* failure marker otherwise.
C7_DownloadResultsInInputOrder ==
    DownloadReturned =>
        /\ Len(download_files) = Len(valid_items)
        /\ \A i \in DOMAIN download_files :
              download_files[i] =
                  IF Succeeded(tasks[i]) THEN SpaceName(i - 1) ELSE None

C7_Witness ==
    /\ DownloadReturned
    /\ Len(download_files) = 3
    /\ download_files[1] = None
    /\ download_files[2] = SpaceName(1)
    /\ download_files[3] = SpaceName(2)

SummariesOf(fname) ==
    { ErrorSummary(fname) } \cup { FoundSummary(n, fname) : n \in 0..MaxStars }

\* C8: when the Analysis Stage has returned its list, every dispatched job
\* has completed and the list holds, for each saved filename, exactly one
\* entry, a summary or an error string of that filename.
C8_OneSummaryPerFile ==
    pc \in {"report", "done"} =>
        /\ \A j \in DOMAIN results : results[j].st = "delivered"
        /\ Len(analysis_summaries) = Len(downloaded_files)
        /\ \A k \in DOMAIN downloaded_files :
              Cardinality({ j \in DOMAIN analysis_summaries :
                  analysis_summaries[j] \in SummariesOf(downloaded_files[k]) }) = 1

C8_Witness ==
    /\ pc = "report"
    /\ Len(analysis_summaries) = 3
    /\ analysis_summaries[1] = FoundSummary(0, SpaceName(0))
    /\ analysis_summaries[2] = ErrorSummary(SpaceName(1))

\* C9: every job holds the filename of a task that got 200 and finished
\* writing the whole body to that file; no job holds the filename of a
\* task that resolved to the failure marker.
C9_OnlySavedFilesDispatched ==
    \A j \in DOMAIN results :
        /\ \E i \in DOMAIN tasks :
              /\ tasks[i].filename = results[j].fname
              /\ Succeeded(tasks[i])
        /\ results[j].fname \in DOMAIN disk
        /\ disk[results[j].fname] = "full"
        /\ \A i \in DOMAIN tasks :
              tasks[i].result = None => tasks[i].filename # results[j].fname

C9_Witness ==
    /\ Len(results) >= 1
    /\ \E i \in DOMAIN tasks :
          tasks[i].exc /\ tasks[i].filename \in DOMAIN disk
    /\ \E i \in DOMAIN tasks : tasks[i].status = 404

NumFailed == Cardinality({ i \in DOMAIN tasks : ~Succeeded(tasks[i]) })

\* C10: the analysis input is the download result list without its
\* failure markers, in the same order: the names of the succeeded tasks in
\* task order, N-k of them; and the jobs are dispatched from it in order.
C10_AnalysisInputIsFilteredResults ==
    DownloadReturned =>
        /\ downloaded_files = OkNames(tasks)
        /\ Len(downloaded_files) = Len(valid_items) - NumFailed
        /\ \A k \in DOMAIN downloaded_files :
              \E i \in DOMAIN download_files :
                  download_files[i] = downloaded_files[k]
        /\ Len(results) <= Len(downloaded_files)
        /\ \A j \in DOMAIN results : results[j].fname = downloaded_files[j]
        /\ pc # "dispatch" => Len(results) = Len(downloaded_files)

C10_Witness ==
    /\ pc = "ana_gather"
    /\ Len(download_files) = 3
    /\ tasks[2].status = 404
    /\ downloaded_files = << SpaceName(0), SpaceName(2) >>
    /\ Len(results) = 2

\* C11: a job whose image did not load returns "Error loading <filename>"
\* without raising and writes no detected_<filename>; only a raising job
\* makes the stage raise, and when the stage returns every job's own
\* result is in the list.
C11_LoadFailureIsAnErrorString ==
    /\ \A j \in DOMAIN results :
          results[j].kind = "noload" =>
              /\ results[j].out = <<"Error loading ">> \o results[j].fname
              /\ ~results[j].exc
              /\ (<<"detected_">> \o results[j].fname) \notin processed
    /\ gatherOuter = "exc" => \E j \in DOMAIN results : results[j].kind = "raise"
    /\ pc \in {"report", "done"} =>
          \A j \in DOMAIN results :
              /\ results[j].kind \in {"noload", "found"}
              /\ analysis_summaries[j] = results[j].out
              /\ results[j].kind = "found" =>
                    /\ analysis_summaries[j] \in
                          { FoundSummary(n, results[j].fname) : n \in 0..MaxStars }
                    /\ (<<"detected_">> \o results[j].fname) \in processed

C11_Witness ==
    /\ pc = "report"
    /\ Len(results) = 2
    /\ results[1].kind = "noload"
    /\ results[2].kind = "found"
    /\ analysis_summaries[1] = <<"Error loading ", "space_", 0, ".jpg">>

\* a task has run pbar.update(1): it is done by the 200 path or the except
\* block
DlCounted(t) == t.st = "done" /\ (t.exc \/ t.status = 200)

\* C12: in every state no task and no job has added more than one to its
\* bar, each bar equals the number of tasks/jobs that have added to it, and
\* no bar exceeds its total.
C12_CountersCountEachOnce ==
    /\ \A i \in DOMAIN tasks : tasks[i].upd = IF DlCounted(tasks[i]) THEN 1 ELSE 0
    /\ download_pbar = Cardinality({ i \in DOMAIN tasks : DlCounted(tasks[i]) })
    /\ download_pbar <= Len(valid_items)
    /\ \A j \in DOMAIN results :
          results[j].upd = IF results[j].st = "delivered" THEN 1 ELSE 0
    /\ pbar = Cardinality({ j \in DOMAIN results : results[j].st = "delivered" })
    /\ pbar <= Len(downloaded_files)

C12_Witness ==
    /\ pc = "ana_gather"
    /\ Len(tasks) = 3
    /\ download_pbar = 2
    /\ Len(results) = 2
    /\ pbar = 1
    /\ results[2].st = "delivered"

AllResolved == \A i \in DOMAIN tasks : tasks[i].st = "done"

\* C13: the Download Stage has never returned while a task is unresolved
\* (so a request that never resolves keeps it from returning), and when
\* every request resolves it does return.
C13_DownloadReturnsWhenAllResolved ==
    /\ [](DownloadReturned => AllResolved)
    /\ [][(pc = "download" /\ pc' # "download") => AllResolved]_vars
    /\ (pc = "download") ~> DownloadReturned

C13_Witness ==
    /\ pc = "dispatch"
    /\ Len(tasks) = 3
    /\ tasks[1].status = 404
    /\ tasks[2].exc
    /\ tasks[3].result = tasks[3].filename

\* C14: the target filenames of the download tasks are pairwise distinct,
\* so are the output names of the analysis jobs, and every job that wrote
\* an output wrote a file of its own.
C14_WriteTargetsDistinct ==
    /\ \A i, k \in DOMAIN tasks :
          i # k => tasks[i].filename # tasks[k].filename
    /\ \A j, l \in DOMAIN results :
          j # l => (<<"detected_">> \o results[j].fname)
                     # (<<"detected_">> \o results[l].fname)
    /\ Cardinality(processed) =
          Cardinality({ j \in DOMAIN results : results[j].kind = "found" })

C14_Witness ==
    /\ Len(tasks) = 3
    /\ Len(results) = 3
    /\ Cardinality(processed) = 3

\* positions of the image items in the response
ImagePositions ==
    { p \in DOMAIN data.elems : data.elems[p].media_type = "image" }

Started ==
    pc \in {"download", "dispatch", "ana_gather", "shutdown", "report", "done"}
    \/ (pc = "aborted" /\ abortCause = "analysis")

\* C15: there is one download task per image item of the response and none
\* for another item; the k-th image item, in response order, is the item of
\* task k, which is named space_<k-1>.jpg.
C15_OneTaskPerImageItem ==
    Started =>
        /\ Len(tasks) = Cardinality(ImagePositions)
        /\ Len(valid_items) = Len(tasks)
        /\ \A p \in ImagePositions :
              LET k == Cardinality({ q \in ImagePositions : q <= p })
              IN  /\ valid_items[k] = data.elems[p]
                  /\ tasks[k].filename = <<"space_", k - 1, ".jpg">>
                  /\ tasks[k].url \in { data.elems[p].hdurl, data.elems[p].url }

C15_Witness ==
    /\ pc = "download"
    /\ Len(data.elems) = 3
    /\ data.elems[1].media_type = "video"
    /\ data.elems[3].media_type = "video"
    /\ Len(tasks) = 1
    /\ tasks[1].filename = <<"space_", 0, ".jpg">>

EmptyRun ==
    /\ pc \in {"download", "dispatch", "ana_gather", "shutdown", "report", "done"}
    /\ valid_items = <<>>

\* C16: with no filtered item no image request is issued, no job is
\* dispatched, both result lists are empty, both bars stay at 0, nothing
\* raises, and the run reaches its end.
C16_EmptyRunCompletes ==
    /\ [](EmptyRun =>
            /\ requests = <<>> /\ tasks = <<>>
            /\ download_files = <<>> /\ downloaded_files = <<>>
            /\ results = <<>> /\ analysis_summaries = <<>>
            /\ download_pbar = 0 /\ pbar = 0
            /\ pc # "shutdown" /\ gatherOuter # "exc")
    /\ EmptyRun ~> (pc = "done" /\ printed = <<>>)

C16_Witness ==
    /\ pc = "done"
    /\ valid_items = <<>>
    /\ Len(data.elems) = 2
    /\ gatherOuter = "result"

\* C17: request i is the one of filtered item i, addressed to its hdurl
\* when it has one and to its url otherwise; once the stage has returned
\* there is exactly one request per filtered item.
C17_OneRequestPerItem ==
    /\ Len(requests) <= Len(valid_items)
    /\ \A i \in DOMAIN requests :
          requests[i] = IF valid_items[i].hdurl # None
                        THEN valid_items[i].hdurl
                        ELSE valid_items[i].url
    /\ DownloadReturned => Len(requests) = Len(valid_items)

C17_Witness ==
    /\ DownloadReturned
    /\ requests = << <<"hd">>, <<"u">>, <<"hd">> >>

InFlight(t) == t.st \in {"get", "read", "write"}

\* C18: a job exists only after the Download Stage has returned with every
\* task resolved; no download is in flight while a job is queued or runs.
C18_BarrierBetweenPhases ==
    /\ Len(results) > 0 => (DownloadReturned /\ AllResolved)
    /\ pc \in {"fetch", "filter", "download"} => results = <<>>
    /\ \A i \in DOMAIN tasks : \A j \in DOMAIN results :
          ~(InFlight(tasks[i]) /\ results[j].st \in {"queued", "running"})

C18_Witness ==
    /\ pc = "dispatch"
    /\ Len(tasks) = 3
    /\ Len(results) = 2
    /\ results[1].st = "running"

\* C19: the list the Analysis Stage returns follows the order of the saved
\* filenames: entry j is the result of the job for the j-th filename.
C19_SummariesInInputOrder ==
    pc \in {"report", "done"} =>
        /\ Len(analysis_summaries) = Len(downloaded_files)
        /\ \A j \in DOMAIN analysis_summaries :
              /\ results[j].fname = downloaded_files[j]
              /\ analysis_summaries[j] \in SummariesOf(downloaded_files[j])

C19_Witness ==
    /\ pc = "report"
    /\ downloaded_files = << SpaceName(0), SpaceName(2) >>
    /\ analysis_summaries[1] = ErrorSummary(SpaceName(0))
    /\ analysis_summaries[2] = FoundSummary(0, SpaceName(2))
====
